---- MODULE Spec2Model ----
(***************************************************************************)
(* StreamNova: the banner carousel (Banner.tsx), the search overlay of the *)
(* navigation bar (MovieRow.tsx, from line 236), the startup fetch         *)
(* (App.tsx) and the details view (MovieModal.tsx).  The components do not *)
(* share state: each has its own specification, in which the variables of  *)
(* the others keep their initial values.                                   *)
(*                                                                         *)
(* The banner carousel.                                                    *)
(* The component's React state is held in the variables that carry the     *)
(* names of the useState hooks; every setState of a handler is applied to  *)
(* them in the step of the handler.  What the handlers READ, however, is   *)
(* the closure of the last committed render (the record `rendered`):       *)
(* nextSlide, prevSlide and goToSlide are useCallback closures over        *)
(* isTransitioning and currentIndex.  A click is a discrete event, React   *)
(* commits its updates before the next event, so a click handler and its   *)
(* commit are one step.  Updates made in a timer callback or in a          *)
(* mouseenter/mouseleave handler are committed in a later task (Render),   *)
(* and other events may be handled in between with the old closures.       *)
(***************************************************************************)
EXTENDS Integers, Sequences, FiniteSets, TLC

\* Largest banner set explored (App limits the set to 5 items).
MaxLen == 3

\* Delay of the first settle timer, before the index changes (ms).
FirstDelay == 200
\* Delay of the second settle timer, before the flag clears (ms).
SecondDelay == 300
\* Period of the auto-play interval passed by App (ms).
AutoPlayInterval == 3000

VARIABLES
    \* Banner
    moviesLength,     \* movies.length, fixed for the life of the component
    currentIndex,     \* useState(0)
    prevIndex,        \* useState(0)
    isTransitioning,  \* useState(false)
    slideDirection,   \* useState('right'): "right" is forward, "left" backward
    isPaused,         \* useState(false)
    showModal,        \* useState(false)
    rendered,         \* state captured by the closures of the last commit
    interval,         \* the auto-play setInterval: "none", "armed", "fired"
    timers,           \* pending setTimeout callbacks, in scheduling order
    pointer,          \* where the pointer rests: "none", "banner", "row"
    settled,          \* the transition whose second timer fired last
    \* Navbar (the search overlay)
    showSearch,       \* useState(false)
    searchQuery,      \* useState(''): a sequence of characters
    searchResults,    \* useState([]): the list shown under the input
    isSearching,      \* useState(false)
    searchTimeouts,   \* pending debounce setTimeout callbacks
    calls,            \* every searchTMDB call issued so far, in order
    inflight,         \* indices into calls of the requests not yet settled
    changes,          \* number of changes of searchQuery so far
    prevQuery,        \* the value searchQuery had before its last change
    early,            \* the last change came while a timeout was pending
    submits,          \* number of form submits handled
    \* App (startup)
    fetches,          \* the eight fetchMovies promises
    fetchData,        \* where fetchData stands: "awaiting" or "done"
    isLoading,        \* useState(true)
    error,            \* useState(null)
    lists,            \* the eight category lists, by the name of their state
    \* MovieModal
    movie,            \* the movie prop
    showPlayer,       \* useState(false)
    isTV,             \* useState(false)
    selectedSeason,   \* useState(1)
    selectedEpisode,  \* useState(1)
    totalSeasons,     \* useState(1)
    episodesPerSeason, \* useState({})
    \* Banner (details of the current item)
    movies,           \* the movies prop: the banner items, by identifier
    movieDetails,     \* useState(null): <<>> for null, <<0>> for an object
                      \* without id, <<i>> for the details of item i
    isLoadingDetails, \* the isLoading of the carousel, useState(false)
    detailFetches,    \* the items with a fetchMovieDetails call in flight
    fetchedMovie,     \* the currentMovie the fetch effect last ran with
    lateDetails,      \* the last response stored came after the response to
                      \* a later request
    \* App (selection in the rows)
    selectedMovie,    \* useState(null): <<>> for null, <<item>> for details
    hydrations,       \* the row items with a details request in flight
    lastClicked,      \* the item of the latest handleMovieClick call
    lateSelection,    \* as lateDetails, for selectedMovie
    \* Navbar (selection of a search result)
    navbarSelectedMovie,  \* Navbar's selectedMovie: <<>> for null, <<object>>
    selections,       \* the clicked results with a details request in flight
    \* the component tree
    mounted           \* App and with it Navbar and Banner are mounted

bannerVars == <<moviesLength, currentIndex, prevIndex, isTransitioning, slideDirection,
                isPaused, showModal, rendered, interval, timers, pointer, settled>>

navbarVars == <<showSearch, searchQuery, searchResults, isSearching, searchTimeouts,
                calls, inflight, changes, prevQuery, early, submits>>

appVars == <<fetches, fetchData, isLoading, error, lists>>

modalVars == <<movie, showPlayer, isTV, selectedSeason, selectedEpisode, totalSeasons,
               episodesPerSeason>>

prewarmVars == <<movies, movieDetails, isLoadingDetails, detailFetches, fetchedMovie,
                 lateDetails>>

rootVars == <<selectedMovie, hydrations, lastClicked, lateSelection>>

treeVars == <<mounted>>

selectVars == <<navbarSelectedMovie, selections>>

vars == <<bannerVars, navbarVars, appVars, modalVars, prewarmVars, rootVars, treeVars,
          selectVars>>

\* What a step of the carousel leaves alone.
outsideBanner ==
    <<navbarVars, appVars, modalVars, prewarmVars,
      rootVars, treeVars, selectVars>>

NoTransition == [op |-> "none", from |-> 0, idle |-> FALSE]

\* ---------------------------------------------------------------- helpers

\* A nextSlide that forgets to wrap at the last index.
NextIndexNoWrap(i, n) == i + 1

\* setCurrentIndex(prevIndex => prevIndex === movies.length - 1 ? 0 : prevIndex + 1)
NextIndex(i, n) == IF i = n - 1 THEN 0 ELSE i + 1

\* A prevSlide that forgets to wrap at index 0.
PrevIndexNoWrap(i, n) == i - 1

\* setCurrentIndex(prevIndex => prevIndex === 0 ? movies.length - 1 : prevIndex - 1)
PrevIndexOf(i, n) == IF i = 0 THEN n - 1 ELSE i - 1

\* A direction effect without the two wraparound cases.
DirectionNoWrap(prev, cur, n) == IF cur > prev THEN "right" ELSE "left"

\* The direction effect's computation.
Direction(prev, cur, n) ==
    IF prev = n - 1 /\ cur = 0 THEN "right"
    ELSE IF prev = 0 /\ cur = n - 1 THEN "left"
    ELSE IF cur > prev THEN "right" ELSE "left"

\* An auto-scroll condition that accepts a single item.
AutoPlayAnyLength(paused, modal, n, transitioning) ==
    ~paused /\ ~modal /\ n > 0 /\ ~transitioning

\* An auto-scroll condition that ignores the details view.
AutoPlayIgnoresModal(paused, modal, n, transitioning) ==
    ~paused /\ n > 1 /\ ~transitioning

\* The auto-scroll effect's condition.
AutoPlayEnabled(paused, modal, n, transitioning) ==
    ~paused /\ ~modal /\ n > 1 /\ ~transitioning

\* document.querySelector('.group:hover'): the carousel root and the
\* container of every category row carry the class "group".
GroupHover(p) == p \in {"banner", "row"}

\* if (!currentMovie || movies.length === 0) return null
Displayed == moviesLength > 0

\* The React state as one value.
State ==
    [currentIndex |-> currentIndex, prevIndex |-> prevIndex,
     isTransitioning |-> isTransitioning, slideDirection |-> slideDirection,
     isPaused |-> isPaused, showModal |-> showModal]

\* What a commit captures of a state.
Snapshot(s) ==
    [currentIndex |-> s.currentIndex, prevIndex |-> s.prevIndex,
     isTransitioning |-> s.isTransitioning,
     isPaused |-> s.isPaused, showModal |-> s.showModal]

\* A setTimeout callback: its phase, what its closure holds (the operation,
\* the target index and the index the operation was invoked at), whether
\* the operation was invoked with no transition under way, and whether the
\* commit that follows its scheduling is still to come.
Timer(phase, op, index, from, idle) ==
    [phase |-> phase, op |-> op, index |-> index, from |-> from,
     idle |-> idle, fresh |-> TRUE]

RemoveAt(seq, k) == [j \in 1..(Len(seq) - 1) |-> IF j < k THEN seq[j] ELSE seq[j + 1]]

\* setIsTransitioning(true); setPrevIndex(currentIndex); setTimeout(..., 200)
\* with the currentIndex of the closure c.
BeginTransition(c, s, tm, op, index) ==
    [st |-> [s EXCEPT !.isTransitioning = TRUE, !.prevIndex = c.currentIndex],
     timers |-> Append(tm, Timer(1, op, index, c.currentIndex,
                                 ~s.isTransitioning /\ tm = <<>>))]

nextSlide(c, s, tm) ==
    IF c.isTransitioning THEN [st |-> s, timers |-> tm]
    ELSE BeginTransition(c, s, tm, "next", 0)

prevSlide(c, s, tm) ==
    IF c.isTransitioning THEN [st |-> s, timers |-> tm]
    ELSE BeginTransition(c, s, tm, "prev", 0)

goToSlide(c, s, tm, index) ==
    IF c.isTransitioning \/ index = c.currentIndex THEN [st |-> s, timers |-> tm]
    ELSE BeginTransition(c, s, tm, "goto", index)

\* The index the first settle timer of a transition sets.
SettleIndex(t, cur, n) ==
    CASE t.op = "next" -> NextIndex(cur, n)
      [] t.op = "prev" -> PrevIndexOf(cur, n)
      [] OTHER -> t.index

\* The direction effect, run by a commit when one of its dependencies changed.
DirectionEffect(old, s, n) ==
    IF s.isTransitioning
       /\ <<s.currentIndex, s.prevIndex, s.isTransitioning>>
            # <<old.currentIndex, old.prevIndex, old.isTransitioning>>
    THEN Direction(s.prevIndex, s.currentIndex, n)
    ELSE s.slideDirection

\* The auto-scroll effect: its cleanup clears the interval and its body sets
\* a new one, whenever isPaused, showModal, isTransitioning or nextSlide
\* (currentIndex, isTransitioning) changed.
AutoScrollEffect(old, s, n, iv) ==
    IF <<s.isPaused, s.showModal, s.isTransitioning, s.currentIndex>>
         # <<old.isPaused, old.showModal, old.isTransitioning, old.currentIndex>>
    THEN IF AutoPlayEnabled(s.isPaused, s.showModal, n, s.isTransitioning)
         THEN "armed" ELSE "none"
    ELSE IF iv = "fired" THEN "armed" ELSE iv

\* A commit: the component re-renders with state s and its effects run.
Commit(s, tm, iv) ==
    [st |-> [s EXCEPT !.slideDirection = DirectionEffect(rendered, s, moviesLength)],
     rendered |-> Snapshot(s),
     interval |-> AutoScrollEffect(rendered, s, moviesLength, iv),
     timers |-> [k \in 1..Len(tm) |-> [tm[k] EXCEPT !.fresh = FALSE]]]

SetState(s) ==
    /\ currentIndex' = s.currentIndex
    /\ prevIndex' = s.prevIndex
    /\ isTransitioning' = s.isTransitioning
    /\ slideDirection' = s.slideDirection
    /\ isPaused' = s.isPaused
    /\ showModal' = s.showModal

\* The outcome r of a commit becomes the next state.
Committed(r) ==
    /\ SetState(r.st)
    /\ rendered' = r.rendered
    /\ interval' = r.interval
    /\ timers' = r.timers

\* An update is waiting for its commit.
Dirty ==
    \/ Snapshot(State) # rendered
    \/ \E k \in 1..Len(timers) : timers[k].fresh
    \/ interval = "fired"

\* ---------------------------------------------------------------- initial state

BannerInit ==
    /\ moviesLength \in 0..MaxLen
    /\ currentIndex = 0
    /\ prevIndex = 0
    /\ isTransitioning = FALSE
    /\ slideDirection = "right"
    /\ isPaused = FALSE
    /\ showModal = FALSE
    /\ rendered = [currentIndex |-> 0, prevIndex |-> 0, isTransitioning |-> FALSE,
                   isPaused |-> FALSE, showModal |-> FALSE]
    /\ interval = IF AutoPlayEnabled(FALSE, FALSE, moviesLength, FALSE)
                  THEN "armed" ELSE "none"
    /\ timers = <<>>
    /\ pointer = "none"
    /\ settled = NoTransition

\* ---------------------------------------------------------------- actions

\* The "Next banner" arrow or the right edge strip: shown when there is more
\* than one item, the arrow disabled and the strip hidden while the commit
\* shows a transition.
ClickNext ==
    /\ moviesLength > 1
    /\ ~rendered.isTransitioning
    /\ LET r == nextSlide(rendered, State, timers)
       IN  Committed(Commit(r.st, r.timers, interval))
    /\ UNCHANGED outsideBanner
    /\ UNCHANGED <<moviesLength, pointer, settled>>

\* The "Previous banner" arrow or the left edge strip.
ClickPrev ==
    /\ moviesLength > 1
    /\ ~rendered.isTransitioning
    /\ LET r == prevSlide(rendered, State, timers)
       IN  Committed(Commit(r.st, r.timers, interval))
    /\ UNCHANGED outsideBanner
    /\ UNCHANGED <<moviesLength, pointer, settled>>

\* An indicator button: never disabled.
ClickIndicator(index) ==
    /\ moviesLength > 1
    /\ LET r == goToSlide(rendered, State, timers, index)
       IN  IF r.timers = timers
           THEN UNCHANGED <<currentIndex, prevIndex, isTransitioning, slideDirection,
                            isPaused, showModal, rendered, interval, timers>>
           ELSE Committed(Commit(r.st, r.timers, interval))
    /\ UNCHANGED outsideBanner
    /\ UNCHANGED <<moviesLength, pointer, settled>>

\* The auto-play interval fires and calls the nextSlide of the commit that
\* set it.  No settle timer is pending at that time when the period is longer
\* than both settle delays together.
Tick ==
    /\ interval = "armed"
    /\ (AutoPlayInterval > FirstDelay + SecondDelay => timers = <<>>)
    /\ LET r == nextSlide(rendered, State, timers)
       IN  /\ SetState(r.st)
           /\ timers' = r.timers
    /\ interval' = "fired"
    /\ UNCHANGED outsideBanner
    /\ UNCHANGED <<moviesLength, rendered, pointer, settled>>

\* A timeout can fire once the commit that follows its scheduling is done,
\* and not before an earlier timeout of the same delay.
CanFire(k, phase) ==
    /\ k \in 1..Len(timers)
    /\ timers[k].phase = phase
    /\ ~timers[k].fresh
    /\ \A j \in 1..(k - 1) : timers[j].phase # phase

\* The first settle timer: the index changes and the second timer is set.
FireFirst(k) ==
    /\ CanFire(k, 1)
    /\ currentIndex' = SettleIndex(timers[k], currentIndex, moviesLength)
    /\ timers' = Append(RemoveAt(timers, k),
                        Timer(2, timers[k].op, timers[k].index, timers[k].from,
                              timers[k].idle))
    /\ settled' = NoTransition
    /\ UNCHANGED outsideBanner
    /\ UNCHANGED <<moviesLength, prevIndex, isTransitioning, slideDirection,
                   isPaused, showModal, rendered, interval, pointer>>

\* A second settle timer that leaves the flag as it is.
FireSecondKeepsFlag(k) ==
    /\ CanFire(k, 2)
    /\ timers' = RemoveAt(timers, k)
    /\ settled' = [op |-> timers[k].op, from |-> timers[k].from,
                    idle |-> timers[k].idle]
    /\ UNCHANGED outsideBanner
    /\ UNCHANGED <<moviesLength, currentIndex, prevIndex, isTransitioning,
                   slideDirection, isPaused, showModal, rendered, interval, pointer>>

\* The second settle timer: setIsTransitioning(false).
FireSecond(k) ==
    /\ CanFire(k, 2)
    /\ isTransitioning' = FALSE
    /\ timers' = RemoveAt(timers, k)
    /\ settled' = [op |-> timers[k].op, from |-> timers[k].from,
                    idle |-> timers[k].idle]
    /\ UNCHANGED outsideBanner
    /\ UNCHANGED <<moviesLength, currentIndex, prevIndex, slideDirection,
                   isPaused, showModal, rendered, interval, pointer>>

\* React commits the pending updates and runs the effects.
Render ==
    /\ Dirty
    /\ Committed(Commit(State, timers, interval))
    /\ UNCHANGED outsideBanner
    /\ UNCHANGED <<moviesLength, pointer, settled>>

OpenDetails ==
    /\ Displayed
    /\ Committed(Commit([State EXCEPT !.showModal = TRUE, !.isPaused = TRUE],
                        timers, interval))
    /\ UNCHANGED outsideBanner
    /\ UNCHANGED <<moviesLength, pointer, settled>>

\* The Play button.
handlePlayClick == OpenDetails

\* The More Info button or the backdrop.
handleInfoClick == OpenDetails

\* The close button of the details view opened from the carousel.
handleCloseModal ==
    /\ rendered.showModal
    /\ Committed(Commit([State EXCEPT !.showModal = FALSE,
                                      !.isPaused = IF ~GroupHover(pointer)
                                                   THEN FALSE ELSE @],
                        timers, interval))
    /\ UNCHANGED outsideBanner
    /\ UNCHANGED <<moviesLength, pointer, settled>>

\* The pointer moves onto the carousel.
handleMouseEnter ==
    /\ Displayed
    /\ pointer # "banner"
    /\ pointer' = "banner"
    /\ isPaused' = TRUE
    /\ UNCHANGED outsideBanner
    /\ UNCHANGED <<moviesLength, currentIndex, prevIndex, isTransitioning,
                   slideDirection, showModal, rendered, interval, timers, settled>>

\* The pointer leaves the carousel, for a category row or for elsewhere.
handleMouseLeave ==
    /\ pointer = "banner"
    /\ pointer' \in {"none", "row"}
    /\ isPaused' = FALSE
    /\ UNCHANGED outsideBanner
    /\ UNCHANGED <<moviesLength, currentIndex, prevIndex, isTransitioning,
                   slideDirection, showModal, rendered, interval, timers, settled>>

\* The pointer moves between a category row and the rest of the page.
PointerMove ==
    /\ Displayed
    /\ pointer # "banner"
    /\ pointer' = IF pointer = "row" THEN "none" ELSE "row"
    /\ UNCHANGED outsideBanner
    /\ UNCHANGED <<moviesLength, currentIndex, prevIndex, isTransitioning,
                   slideDirection, isPaused, showModal, rendered, interval,
                   timers, settled>>

Next ==
    \/ ClickNext
    \/ ClickPrev
    \/ \E index \in 0..(moviesLength - 1) : ClickIndicator(index)
    \/ Tick
    \/ \E k \in 1..Len(timers) : FireFirst(k)
    \/ \E k \in 1..Len(timers) : FireSecond(k)
    \/ Render
    \/ handlePlayClick
    \/ handleInfoClick
    \/ handleCloseModal
    \/ handleMouseEnter
    \/ handleMouseLeave
    \/ PointerMove

TypeOK ==
    /\ moviesLength \in 0..MaxLen
    /\ currentIndex \in 0..MaxLen
    /\ prevIndex \in 0..MaxLen
    /\ isTransitioning \in BOOLEAN
    /\ slideDirection \in {"left", "right"}
    /\ isPaused \in BOOLEAN
    /\ showModal \in BOOLEAN
    /\ interval \in {"none", "armed", "fired"}
    /\ pointer \in {"none", "banner", "row"}

\* ================================================================ Navbar
\* The search overlay of the navigation bar (src/src/components/MovieRow.tsx,
\* from line 236).  The query changes only in discrete events, so the
\* handlers read the query of the state.

\* Largest number of changes of the query explored.
MaxChanges == 3
\* Largest number of form submits explored.
MaxSubmits == 1

\* Delay of the debounce timer (ms).
DebounceDelay == 500
\* A query is searched when its trimmed length exceeds this.
MinQueryLength == 2
\* Time passes in steps of half the debounce delay.
Quantum == DebounceDelay \div 2

\* The values given to the input: empty, of trimmed length 2 and 3, with and
\* without blanks around them.
Queries ==
    { <<>>, <<"a", "b", " ">>, <<"a", "b", "c">>, <<" ", "a", "b", "c">> }

RECURSIVE TrimStart(_)
TrimStart(s) == IF s # <<>> /\ Head(s) = " " THEN TrimStart(Tail(s)) ELSE s

RECURSIVE TrimEnd(_)
TrimEnd(s) ==
    IF s # <<>> /\ s[Len(s)] = " " THEN TrimEnd(SubSeq(s, 1, Len(s) - 1)) ELSE s

\* String.prototype.trim
Trim(s) == TrimEnd(TrimStart(s))

\* A threshold on the length of the query as typed, blanks included.
SearchableUntrimmed(q) == Len(q) > MinQueryLength

\* A threshold that lets a query of trimmed length 2 through.
SearchableFromTwo(q) == Len(Trim(q)) >= MinQueryLength

\* searchQuery.trim().length > 2
Searchable(q) == Len(Trim(q)) > MinQueryLength

\* The results panel is rendered under the input.
PanelShown == showSearch /\ Searchable(searchQuery)

\* The list a successful search returns: here one item naming the query.
ResultsFor(q) == <<q>>

SearchTimeout(id, q) == [id |-> id, query |-> q, left |-> DebounceDelay]

\* A throttle in place of the debounce: while a timeout is pending it is
\* kept and no new one is set.
DebounceEffectLeading(timeouts, q, id) ==
    IF timeouts # {} THEN timeouts ELSE {SearchTimeout(id, q)}

\* A debounce effect without its cleanup.
DebounceEffectNoCleanup(timeouts, q, id) == timeouts \cup {SearchTimeout(id, q)}

\* The effect on [searchQuery]: the cleanup of the previous run clears the
\* timeout that run created, then a new timeout is set.
DebounceEffect(timeouts, q, id) ==
    {t \in timeouts : t.id # id - 1} \cup {SearchTimeout(id, q)}

\* A timeout that is due runs before anything that happens later.
NoneDue == \A t \in searchTimeouts : t.left > 0

\* searchTMDB(q) is called and setIsSearching(true).
IssueSearch(q, by, id) ==
    /\ isSearching' = TRUE
    /\ calls' = Append(calls, [query |-> q, by |-> by, id |-> id])
    /\ inflight' = inflight \cup {Len(calls) + 1}

\* setSearchQuery(q), its commit and the debounce effect.
SetSearchQuery(q) ==
    IF q = searchQuery
    THEN UNCHANGED <<searchQuery, searchTimeouts, changes, prevQuery, early>>
    ELSE /\ searchQuery' = q
         /\ searchTimeouts' = DebounceEffect(searchTimeouts, q, changes + 1)
         /\ changes' = changes + 1
         /\ prevQuery' = searchQuery
         /\ early' = (searchTimeouts # {})

NavbarInit ==
    /\ showSearch = FALSE
    /\ searchQuery = <<>>
    /\ searchResults = <<>>
    /\ isSearching = FALSE
    /\ searchTimeouts = {SearchTimeout(0, <<>>)}
    /\ calls = <<>>
    /\ inflight = {}
    /\ changes = 0
    /\ prevQuery = <<>>
    /\ early = FALSE
    /\ submits = 0

\* What a step of the navigation bar leaves alone.
outsideNavbar ==
    <<bannerVars, appVars, modalVars, prewarmVars,
      rootVars, treeVars, selectVars>>

\* The "Open search" button.
OpenSearch ==
    /\ ~showSearch
    /\ NoneDue
    /\ showSearch' = TRUE
    /\ UNCHANGED <<searchQuery, searchResults, isSearching, searchTimeouts, calls,
                   inflight, changes, prevQuery, early, submits>>
    /\ UNCHANGED outsideNavbar

\* onChange of the input: setSearchQuery(e.target.value).
handleChange(q) ==
    /\ showSearch
    /\ NoneDue
    /\ q # searchQuery
    /\ changes < MaxChanges
    /\ SetSearchQuery(q)
    /\ UNCHANGED <<showSearch, searchResults, isSearching, calls, inflight, submits>>
    /\ UNCHANGED outsideNavbar

\* A reset that also drops the requests in flight.
ResetSearchCancelling ==
    /\ showSearch
    /\ NoneDue
    /\ searchQuery # <<>> => changes < MaxChanges
    /\ showSearch' = FALSE
    /\ SetSearchQuery(<<>>)
    /\ searchResults' = <<>>
    /\ inflight' = {}
    /\ UNCHANGED <<isSearching, calls, submits>>
    /\ UNCHANGED outsideNavbar

\* setShowSearch(false); setSearchQuery(''); setSearchResults([]).
ResetSearch ==
    /\ showSearch
    /\ NoneDue
    /\ searchQuery # <<>> => changes < MaxChanges
    /\ showSearch' = FALSE
    /\ SetSearchQuery(<<>>)
    /\ searchResults' = <<>>
    /\ UNCHANGED <<isSearching, calls, inflight, submits>>
    /\ UNCHANGED outsideNavbar

\* The keys pressed in the input that are told apart.
Keys == {"Escape", "Enter"}

\* onKeyDown of the input: Escape resets, any other key is left to the input.
handleKeyDown(key) ==
    IF key = "Escape"
    THEN ResetSearch
    ELSE showSearch /\ NoneDue /\ UNCHANGED vars

\* The "Clear search" button.
ClearSearch == ResetSearch

\* Where a mousedown lands: in the input, elsewhere in the element that holds
\* the form and the results panel (searchResultsRef), or outside of it.
Targets == {"input", "panel", "outside"}

\* A mousedown listener that does not look at the target.
handleClickAnywhere(target) == ResetSearch

\* The mousedown listener of the document.
handleClickOutside(target) ==
    IF target = "outside"
    THEN ResetSearch
    ELSE showSearch /\ NoneDue /\ UNCHANGED vars

\* A submit that clears the pending debounce timeout.
handleSearchCancelling ==
    /\ showSearch
    /\ NoneDue
    /\ submits < MaxSubmits
    /\ submits' = submits + 1
    /\ IF Searchable(searchQuery)
       THEN IssueSearch(searchQuery, "submit", changes)
       ELSE UNCHANGED <<isSearching, calls, inflight>>
    /\ searchTimeouts' = {}
    /\ UNCHANGED <<showSearch, searchQuery, searchResults, changes, prevQuery, early>>
    /\ UNCHANGED outsideNavbar

\* The form is submitted (the "Submit search" button, or Enter).
handleSearch ==
    /\ showSearch
    /\ NoneDue
    /\ submits < MaxSubmits
    /\ submits' = submits + 1
    /\ IF Searchable(searchQuery)
       THEN IssueSearch(searchQuery, "submit", changes)
       ELSE UNCHANGED <<isSearching, calls, inflight>>
    /\ UNCHANGED <<showSearch, searchQuery, searchResults, searchTimeouts, changes,
                   prevQuery, early>>
    /\ UNCHANGED outsideNavbar

\* Time passes while a debounce timeout is pending.
Elapse ==
    /\ searchTimeouts # {}
    /\ NoneDue
    /\ searchTimeouts' = {[t EXCEPT !.left = @ - Quantum] : t \in searchTimeouts}
    /\ UNCHANGED <<showSearch, searchQuery, searchResults, isSearching, calls,
                   inflight, changes, prevQuery, early, submits>>
    /\ UNCHANGED outsideNavbar

\* The debounce timeout runs, with the query of the effect that set it.
FireSearchTimeout(t) ==
    /\ t \in searchTimeouts
    /\ t.left = 0
    /\ searchTimeouts' = searchTimeouts \ {t}
    /\ IF Searchable(t.query)
       THEN /\ IssueSearch(t.query, "debounce", t.id)
            /\ UNCHANGED searchResults
       ELSE /\ searchResults' = <<>>
            /\ UNCHANGED <<isSearching, calls, inflight>>
    /\ UNCHANGED <<showSearch, searchQuery, changes, prevQuery, early, submits>>
    /\ UNCHANGED outsideNavbar

\* A completion that stores the response of the latest request only.
SearchSettlesLatestOnly(i, outcome) ==
    /\ i \in inflight
    /\ NoneDue
    /\ inflight' = inflight \ {i}
    /\ searchResults' = IF i # Len(calls) THEN searchResults
                        ELSE IF outcome = "results" THEN ResultsFor(calls[i].query)
                        ELSE <<>>
    /\ isSearching' = FALSE
    /\ UNCHANGED <<showSearch, searchQuery, searchTimeouts, calls, changes, prevQuery,
                   early, submits>>
    /\ UNCHANGED outsideNavbar

\* A search request settles: its results are stored, or the empty list when
\* it failed, and setIsSearching(false).
SearchSettles(i, outcome) ==
    /\ i \in inflight
    /\ NoneDue
    /\ inflight' = inflight \ {i}
    /\ searchResults' = IF outcome = "results" THEN ResultsFor(calls[i].query) ELSE <<>>
    /\ isSearching' = FALSE
    /\ UNCHANGED <<showSearch, searchQuery, searchTimeouts, calls, changes, prevQuery,
                   early, submits>>
    /\ UNCHANGED outsideNavbar

SearchNext ==
    \/ OpenSearch
    \/ \E q \in Queries : handleChange(q)
    \/ \E key \in Keys : handleKeyDown(key)
    \/ ClearSearch
    \/ \E target \in Targets : handleClickOutside(target)
    \/ handleSearch
    \/ Elapse
    \/ \E t \in searchTimeouts : FireSearchTimeout(t)
    \/ \E i \in inflight, outcome \in {"results", "nothing", "error"} :
          SearchSettles(i, outcome)


\* ================================================================ App
\* The startup fetch of the root component (src/src/App.tsx).

\* The eight category lists, by the name of their state variable, in the
\* order of the fetches handed to Promise.all.
Categories ==
    {"popularMovies", "topRatedMovies", "upcomingMovies", "nowPlayingMovies",
     "popularTV", "topRatedTV", "trendingMovies", "trendingTV"}

NoError == "null"
LoadError == "Failed to load content. Please try again later."

Pending == [state |-> "pending", present |-> FALSE, items |-> <<>>]
Rejected == [state |-> "rejected", present |-> FALSE, items |-> <<>>]
\* A fulfilled fetch: its value is null or undefined, or a list of items.
\* The items of a category are named after it.
Fulfilled(c) ==
    { [state |-> "fulfilled", present |-> FALSE, items |-> <<>>],
      [state |-> "fulfilled", present |-> TRUE, items |-> <<c>>] }

\* value || []
OrEmpty(v) == IF v.present THEN v.items ELSE <<>>

\* A join that waits for every fetch and takes what succeeded.
AllSettled(f) ==
    IF \A c \in Categories : f[c].state # "pending" THEN "fulfilled" ELSE "pending"

\* Promise.all: rejected with the first rejection, fulfilled when every
\* promise is.
PromiseAll(f) ==
    IF \E c \in Categories : f[c].state = "rejected" THEN "rejected"
    ELSE IF \A c \in Categories : f[c].state = "fulfilled" THEN "fulfilled"
    ELSE "pending"

\* What App renders: the loading screen, the error panel, or the content.
View ==
    IF isLoading THEN "loading"
    ELSE IF error # NoError THEN "error"
    ELSE "content"

\* The state after the mount effect has called fetchData and fetchData has
\* reached its await.
AppInit ==
    /\ fetches = [c \in Categories |-> Pending]
    /\ fetchData = "awaiting"
    /\ isLoading = TRUE
    /\ error = NoError
    /\ lists = [c \in Categories |-> <<>>]

\* What a step of the startup leaves alone.
outsideApp ==
    <<bannerVars, navbarVars, modalVars, prewarmVars,
      rootVars, treeVars, selectVars>>

\* One fetchMovies promise settles.  The continuation of a settled join runs
\* before any later response is handled.
FetchSettles(c, outcome) ==
    /\ fetches[c].state = "pending"
    /\ fetchData = "awaiting" => PromiseAll(fetches) = "pending"
    /\ fetches' = [fetches EXCEPT ![c] = outcome]
    /\ UNCHANGED <<fetchData, isLoading, error, lists>>
    /\ UNCHANGED outsideApp

\* fetchData resumes after its await: the eight setters, or the catch
\* block, and then the finally block.
fetchDataResume ==
    /\ fetchData = "awaiting"
    /\ PromiseAll(fetches) # "pending"
    /\ IF PromiseAll(fetches) = "fulfilled"
       THEN /\ lists' = [c \in Categories |-> OrEmpty(fetches[c])]
            /\ UNCHANGED error
       ELSE /\ error' = LoadError
            /\ UNCHANGED lists
    /\ isLoading' = FALSE
    /\ fetchData' = "done"
    /\ UNCHANGED fetches
    /\ UNCHANGED outsideApp

\* The Retry button of the error panel: window.location.reload().
Retry ==
    /\ View = "error"
    /\ fetches' = [c \in Categories |-> Pending]
    /\ fetchData' = "awaiting"
    /\ isLoading' = TRUE
    /\ error' = NoError
    /\ lists' = [c \in Categories |-> <<>>]
    /\ UNCHANGED outsideApp

StartupNext ==
    \/ \E c \in Categories : \E outcome \in Fulfilled(c) \cup {Rejected} :
          FetchSettles(c, outcome)
    \/ fetchDataResume
    \/ Retry


\* ================================================================ MovieModal
\* The details view (src/src/components/MovieModal.tsx).  The state after the
\* first commit and its effect is the state the view starts in.

\* Largest season count explored.
MaxSeasons == 2
\* Episode options of a season whose count is not known.
DefaultEpisodes == 10

\* A field that may be absent: <<>> when it is, <<v>> when it holds v.
Optional(S) == {<<>>} \cup {<<v>> : v \in S}
Present(f) == f # <<>>

\* JavaScript truthiness of an optional number and of an optional string.
TruthyNumber(f) == Present(f) /\ f[1] # 0
TruthyString(f) == Present(f) /\ f[1] # ""

\* The episode counts an entry of the seasons list may carry: none, 0, or a
\* count other than the default.
CountValues == {<<>>, <<0>>, <<8>>}

RECURSIVE SeasonList(_, _)
\* The entries of the seasons numbered in S, in ascending order.
SeasonList(S, count) ==
    IF S = {} THEN <<>>
    ELSE LET n == CHOOSE x \in S : \A y \in S : x <= y
         IN  <<[season_number |-> n, episode_count |-> count[n]]>>
                 \o SeasonList(S \ {n}, count)

\* The seasons lists the catalog returns with a season count of n.
SeasonLists(n) ==
    UNION {{SeasonList(S, count) : count \in [S -> CountValues]} : S \in SUBSET (0..n)}

\* The seasons field comes with the season count: absent, or a list.
SeasonsOf(seasons) ==
    IF Present(seasons)
    THEN {<<>>} \cup {<<list>> : list \in SeasonLists(seasons[1])}
    ELSE {<<>>}

\* The objects handed to the details view.
Movies ==
    UNION {{[id |-> 1399,
             number_of_seasons |-> n,
             first_air_date |-> d,
             media_type |-> k,
             name |-> nm,
             title |-> tt,
             seasons |-> ss,
             external_imdb_id |-> x,
             imdb_id |-> e] :
                d \in Optional({"2011-04-17"}), k \in Optional({"movie", "tv"}),
                nm \in Optional({"name"}), tt \in Optional({"title"}),
                ss \in SeasonsOf(n),
                x \in Optional({"tt-nested"}), e \in Optional({"tt-explicit"})} :
           n \in Optional(0..MaxSeasons)}

NoMovie == [id |-> 0]

\* A kind inference in which the series title counts only when the movie
\* title is absent.
IsTVShowByTitle(m) ==
    \/ Present(m.number_of_seasons)
    \/ Present(m.first_air_date)
    \/ m.media_type = <<"tv">>
    \/ Present(m.name) /\ ~Present(m.title)

\* const isTVShow = movie.number_of_seasons !== undefined || ...
IsTVShow(m) ==
    \/ Present(m.number_of_seasons)
    \/ Present(m.first_air_date)
    \/ m.media_type = <<"tv">>
    \/ Present(m.name)

\* season.episode_count || 10
CountOrDefault(count) == IF TruthyNumber(count) THEN count[1] ELSE DefaultEpisodes

RECURSIVE EpisodeCounts(_, _)
\* movie.seasons.forEach(...): the per-season map, as a set of entries.
EpisodeCounts(list, map) ==
    IF list = <<>> THEN map
    ELSE LET season == Head(list)
         IN  EpisodeCounts(
                 Tail(list),
                 IF season.season_number > 0
                 THEN {e \in map : e.season # season.season_number}
                          \cup {[season |-> season.season_number,
                                 count |-> CountOrDefault(season.episode_count)]}
                 ELSE map)

\* const episodeCount = episodesPerSeason[selectedSeason] || 10
EpisodeCount(map, season) ==
    IF \E e \in map : e.season = season /\ e.count # 0
    THEN (CHOOSE e \in map : e.season = season).count
    ELSE DefaultEpisodes


\* a || b
Or(a, b) == IF TruthyString(a) THEN a ELSE b

\* The address of the player frame: the path, the identifier it is built
\* from, and the season and episode parameters.
SeriesByImdb(imdbId, season, episode) ==
    [path |-> "https://vidsrc.in/embed/tv", imdb |-> imdbId, tmdb |-> <<>>,
     season |-> <<season>>, episode |-> <<episode>>]
SeriesByTmdb(id, season, episode) ==
    [path |-> "https://vidsrc.in/embed/tv", imdb |-> <<>>, tmdb |-> <<id>>,
     season |-> <<season>>, episode |-> <<episode>>]
MovieByTmdb(id) ==
    [path |-> "https://vidsrc.in/embed/movie", imdb |-> <<>>, tmdb |-> <<id>>,
     season |-> <<>>, episode |-> <<>>]
NoUrl == [path |-> "", imdb |-> <<>>, tmdb |-> <<>>, season |-> <<>>, episode |-> <<>>]

\* A getEmbedUrl that prefers the identifier supplied at the top level.
getEmbedUrlExplicitFirst(m, tv, season, episode) ==
    IF m.id = 0 THEN NoUrl
    ELSE IF tv
         THEN LET imdbId == Or(m.imdb_id, m.external_imdb_id)
              IN  IF TruthyString(imdbId)
                  THEN SeriesByImdb(imdbId, season, episode)
                  ELSE SeriesByTmdb(m.id, season, episode)
         ELSE MovieByTmdb(m.id)

\* A getEmbedUrl whose fallback forgets the selection.
getEmbedUrlFallbackToFirstEpisode(m, tv, season, episode) ==
    IF m.id = 0 THEN NoUrl
    ELSE IF tv
         THEN LET imdbId == Or(m.external_imdb_id, m.imdb_id)
              IN  IF TruthyString(imdbId)
                  THEN SeriesByImdb(imdbId, season, episode)
                  ELSE SeriesByTmdb(m.id, 1, 1)
         ELSE MovieByTmdb(m.id)

\* getEmbedUrl, with the state it reads as parameters.
getEmbedUrl(m, tv, season, episode) ==
    IF m.id = 0 THEN NoUrl
    ELSE IF tv
         THEN LET imdbId == Or(m.external_imdb_id, m.imdb_id)
              IN  IF TruthyString(imdbId)
                  THEN SeriesByImdb(imdbId, season, episode)
                  ELSE SeriesByTmdb(m.id, season, episode)
         ELSE MovieByTmdb(m.id)

\* The src of the player frame, rendered while the player is shown.
FrameSrc == getEmbedUrl(movie, isTV, selectedSeason, selectedEpisode)

\* The options of the season selector and of the episode selector.
SeasonOptions == 1..totalSeasons
EpisodeOptions == 1..EpisodeCount(episodesPerSeason, selectedSeason)

\* The effect on [movie]: what it sets, given what the state held before.
MovieEffect(m, total, map) ==
    IF IsTVShow(m) /\ TruthyNumber(m.number_of_seasons)
    THEN [isTV |-> TRUE,
          totalSeasons |-> m.number_of_seasons[1],
          episodesPerSeason |-> IF Present(m.seasons)
                                THEN EpisodeCounts(m.seasons[1], {})
                                ELSE {}]
    ELSE [isTV |-> IsTVShow(m), totalSeasons |-> total, episodesPerSeason |-> map]

\* No details view is rendered.
ModalClosed ==
    /\ movie = NoMovie
    /\ showPlayer = FALSE
    /\ isTV = FALSE
    /\ selectedSeason = 1
    /\ selectedEpisode = 1
    /\ totalSeasons = 1
    /\ episodesPerSeason = {}

\* The details view is mounted with one of the objects.
ModalInit ==
    \E m \in Movies :
        LET effect == MovieEffect(m, 1, {})
        IN  /\ movie = m
            /\ showPlayer = FALSE
            /\ isTV = effect.isTV
            /\ selectedSeason = 1
            /\ selectedEpisode = 1
            /\ totalSeasons = effect.totalSeasons
            /\ episodesPerSeason = effect.episodesPerSeason

\* What a step of the details view leaves alone.
outsideModal ==
    <<bannerVars, navbarVars, appVars, prewarmVars,
      rootVars, treeVars, selectVars>>

\* The Play button of the details view: no onPlay is passed by any parent.
handlePlayClickInModal ==
    /\ ~showPlayer
    /\ showPlayer' = TRUE
    /\ UNCHANGED <<movie, isTV, selectedSeason, selectedEpisode, totalSeasons,
                   episodesPerSeason>>
    /\ UNCHANGED outsideModal

\* The "Close player" button.
handleClosePlayer ==
    /\ showPlayer
    /\ showPlayer' = FALSE
    /\ UNCHANGED <<movie, isTV, selectedSeason, selectedEpisode, totalSeasons,
                   episodesPerSeason>>
    /\ UNCHANGED outsideModal

\* A season selector that leaves the selected episode alone.
SelectSeasonKeepsEpisode(newSeason) ==
    /\ showPlayer /\ isTV
    /\ newSeason \in SeasonOptions
    /\ newSeason # selectedSeason
    /\ selectedSeason' = newSeason
    /\ UNCHANGED <<movie, showPlayer, isTV, selectedEpisode, totalSeasons,
                   episodesPerSeason>>
    /\ UNCHANGED outsideModal

\* onChange of the season selector.
SelectSeason(newSeason) ==
    /\ showPlayer /\ isTV
    /\ newSeason \in SeasonOptions
    /\ newSeason # selectedSeason
    /\ selectedSeason' = newSeason
    /\ selectedEpisode' = 1
    /\ UNCHANGED <<movie, showPlayer, isTV, totalSeasons, episodesPerSeason>>
    /\ UNCHANGED outsideModal

\* onChange of the episode selector.
SelectEpisode(newEpisode) ==
    /\ showPlayer /\ isTV
    /\ newEpisode \in EpisodeOptions
    /\ newEpisode # selectedEpisode
    /\ selectedEpisode' = newEpisode
    /\ UNCHANGED <<movie, showPlayer, isTV, selectedSeason, totalSeasons,
                   episodesPerSeason>>
    /\ UNCHANGED outsideModal

ModalNext ==
    \/ handlePlayClickInModal
    \/ handleClosePlayer
    \/ \E newSeason \in 1..MaxSeasons : SelectSeason(newSeason)
    \/ \E newEpisode \in 1..DefaultEpisodes : SelectEpisode(newEpisode)

\* The objects a displayed object is replaced by: a film or a series, with
\* or without a season count, and nothing else populated.
Replacements ==
    {m \in Movies : /\ m.first_air_date = <<>> /\ m.media_type = <<>>
                    /\ m.seasons = <<>>
                    /\ m.external_imdb_id = <<>> /\ m.imdb_id = <<>>}

\* The parent hands another object to the view that is open: the carousel
\* when the details of another item arrive (movie={movieDetails}), the root
\* view when a second details request completes (movie={selectedMovie}).
\* The effect on [movie] runs again, on the state the view holds.
ReplaceMovie(m) ==
    /\ movie # NoMovie
    /\ m # movie
    /\ LET effect == MovieEffect(m, totalSeasons, episodesPerSeason)
       IN  /\ movie' = m
           /\ showPlayer' = FALSE
           /\ isTV' = effect.isTV
           /\ totalSeasons' = effect.totalSeasons
           /\ episodesPerSeason' = effect.episodesPerSeason
    /\ UNCHANGED <<selectedSeason, selectedEpisode>>
    /\ UNCHANGED outsideModal

\* The details view with its object replaced while it is open.
ReplaceNext ==
    \/ handlePlayClickInModal
    \/ handleClosePlayer
    \/ \E newSeason \in 1..MaxSeasons : SelectSeason(newSeason)
    \/ \E newEpisode \in 1..DefaultEpisodes : SelectEpisode(newEpisode)
    \/ \E m \in Replacements : ReplaceMovie(m)

\* ================================================================ Banner details
\* The details of the current item, fetched by the carousel for its details
\* view (src/src/components/Banner.tsx, lines 110-128).  Nothing but the
\* rendering reads movieDetails and isLoading, so they need no place in the
\* closures of a commit.

\* The banner items are named by the position they have at the start.
InitialMovies == [i \in 1..moviesLength |-> i]

\* const currentMovie = movies[currentIndex], as of the last commit.
CurrentMovie ==
    IF rendered.currentIndex < Len(movies)
    THEN <<movies[rendered.currentIndex + 1]>>
    ELSE <<>>

\* The fetch effect has run for the current item.
Flushed == fetchedMovie = CurrentMovie

\* What fetchMovieDetails comes back with, as its callers tell it apart: an
\* object with an id, null, an object without id, or a rejection.
DetailOutcomes == {"details", "null", "noid", "error"}

\* The details view of the carousel is rendered: showModal && movieDetails.
DetailsShown == rendered.showModal /\ Present(movieDetails)

PrewarmInit ==
    /\ movies = InitialMovies
    /\ movieDetails = <<>>
    /\ isLoadingDetails = (moviesLength > 0)
    /\ detailFetches = IF moviesLength > 0 THEN {1} ELSE {}
    /\ fetchedMovie = IF moviesLength > 0 THEN <<1>> ELSE <<>>
    /\ lateDetails = FALSE

\* What a step of the details of the carousel leaves alone.
outsidePrewarm ==
    <<bannerVars, navbarVars, appVars, modalVars,
      rootVars, treeVars, selectVars>>

\* The effect on [currentMovie], run by the commit that changed it:
\* setIsLoading(true) and fetchMovieDetails(currentMovie.id).
fetchDetails ==
    /\ ~Flushed
    /\ fetchedMovie' = CurrentMovie
    /\ IF Present(CurrentMovie)
       THEN /\ isLoadingDetails' = TRUE
            /\ detailFetches' = detailFetches \cup {CurrentMovie[1]}
       ELSE UNCHANGED <<isLoadingDetails, detailFetches>>
    /\ UNCHANGED <<movies, movieDetails, lateDetails>>
    /\ UNCHANGED outsidePrewarm

\* The value stored by setMovieDetails(details).
StoredDetails(item, outcome) ==
    CASE outcome = "details" -> <<item>>
      [] outcome = "noid" -> <<0>>
      [] OTHER -> <<>>

\* A response for an item that is no longer the current one is dropped.
DetailsSettleCurrentOnly(item, outcome) ==
    /\ Flushed
    /\ item \in detailFetches
    /\ detailFetches' = detailFetches \ {item}
    /\ movieDetails' = IF outcome = "error" \/ fetchedMovie # <<item>> THEN movieDetails
                       ELSE StoredDetails(item, outcome)
    /\ isLoadingDetails' = FALSE
    /\ UNCHANGED <<movies, fetchedMovie, lateDetails>>
    /\ UNCHANGED outsidePrewarm

\* A fetchMovieDetails call of the effect settles: setMovieDetails(details)
\* unless it threw, and setIsLoading(false) in any case.
DetailsSettle(item, outcome) ==
    /\ Flushed
    /\ item \in detailFetches
    /\ detailFetches' = detailFetches \ {item}
    /\ movieDetails' = IF outcome = "error" THEN movieDetails
                       ELSE StoredDetails(item, outcome)
    /\ isLoadingDetails' = FALSE
    /\ lateDetails' = IF outcome = "error" THEN lateDetails
                      ELSE /\ outcome = "details"
                           /\ Present(fetchedMovie)
                           /\ fetchedMovie[1] # item
                           /\ fetchedMovie[1] \notin detailFetches
    /\ UNCHANGED <<movies, fetchedMovie>>
    /\ UNCHANGED outsidePrewarm

\* The carousel with its details: the arrows, the indicators, the settle
\* timers, the details view and the fetches, with the pointer away and the
\* user acting before the auto-play interval, which every transition sets
\* anew, has elapsed.  The effect runs before anything else does.
PrewarmNext ==
    \/ fetchDetails
    \/ \E item \in detailFetches, outcome \in DetailOutcomes : DetailsSettle(item, outcome)
    \/ Flushed /\ ClickNext
    \/ Flushed /\ ClickPrev
    \/ \E index \in 0..(moviesLength - 1) : Flushed /\ ClickIndicator(index)
    \/ \E k \in 1..Len(timers) : Flushed /\ FireFirst(k)
    \/ \E k \in 1..Len(timers) : Flushed /\ FireSecond(k)
    \/ Flushed /\ Render
    \/ Flushed /\ ~isLoadingDetails /\ handlePlayClick
    \/ Flushed /\ handleInfoClick
    \/ Flushed /\ handleCloseModal

\* ================================================================ App selection
\* The rows of the root view and its details view (src/src/App.tsx).

\* The state after a startup whose eight fetches were fulfilled with data.
AppLoaded ==
    /\ fetches = [c \in Categories |->
                    [state |-> "fulfilled", present |-> TRUE, items |-> <<c>>]]
    /\ fetchData = "done"
    /\ isLoading = FALSE
    /\ error = NoError
    /\ lists = [c \in Categories |-> <<c>>]

\* The arguments a card hands to handleMovieClick: a film and a series.
RowItems ==
    { [movieId |-> 1, mediaType |-> "movie"],
      [movieId |-> 2, mediaType |-> "tv"] }

RootInit ==
    /\ selectedMovie = <<>>
    /\ hydrations = {}
    /\ lastClicked = <<>>
    /\ lateSelection = FALSE

\* What a step of the root view leaves alone besides the banner set.
outsideRoot == <<bannerVars, navbarVars, appVars, modalVars, treeVars, selectVars>>

\* sort(() => 0.5 - Math.random()): any order of the candidates.  The
\* candidates here are the items of the banner set, so that a render changes
\* the order of the set and not its members.
Shuffles == { f \in [1..moviesLength -> 1..moviesLength] :
                \A i, j \in 1..moviesLength : f[i] = f[j] => i = j }

\* App renders again: bannerMovies is computed anew and handed to Banner.
AppRenders == movies' \in Shuffles

\* A card of a row is pressed.  The details view covers the rows while it is
\* open, so selectedMovie is null already when the handler clears it.
handleMovieClick(item) ==
    /\ View = "content"
    /\ Flushed
    /\ ~Present(selectedMovie)
    /\ selectedMovie' = <<>>
    /\ hydrations' = hydrations \cup {item}
    /\ lastClicked' = <<item>>
    /\ UNCHANGED <<lateSelection, prewarmVars>>
    /\ UNCHANGED outsideRoot

\* The details request of a row item completes.  Anything but an object with
\* an id is thrown and logged.
HydrationSettles(item, outcome) ==
    /\ Flushed
    /\ item \in hydrations
    /\ hydrations' = hydrations \ {item}
    /\ IF outcome = "details"
       THEN /\ selectedMovie' = <<item>>
            /\ lateSelection' = (lastClicked # <<item>> /\ lastClicked[1] \notin hydrations)
            /\ AppRenders
       ELSE UNCHANGED <<selectedMovie, lateSelection, movies>>
    /\ UNCHANGED <<lastClicked, movieDetails, isLoadingDetails, detailFetches,
                   fetchedMovie, lateDetails>>
    /\ UNCHANGED outsideRoot

\* onClose of the root details view.
closeSelectedMovie ==
    /\ Flushed
    /\ Present(selectedMovie)
    /\ selectedMovie' = <<>>
    /\ AppRenders
    /\ UNCHANGED <<hydrations, lastClicked, lateSelection, movieDetails,
                   isLoadingDetails, detailFetches, fetchedMovie, lateDetails>>
    /\ UNCHANGED outsideRoot

\* The root view with the carousel at rest: the cards, the details requests,
\* the details view, and the carousel's own details requests.
RootNext ==
    \/ fetchDetails
    \/ \E item \in detailFetches, outcome \in DetailOutcomes : DetailsSettle(item, outcome)
    \/ \E item \in RowItems : handleMovieClick(item)
    \/ \E item \in hydrations, outcome \in DetailOutcomes : HydrationSettles(item, outcome)
    \/ closeSelectedMovie

\* ================================================================ teardown
\* App is unmounted, and Navbar and Banner with it.  The cleanups of the
\* effects run; what a handler scheduled outside an effect is left as it is.

TreeInit == mounted = TRUE

\* The carousel is at rest on its first slide and nothing waits for a commit.
BannerAtRest ==
    /\ timers = <<>>
    /\ ~Dirty
    /\ currentIndex = 0
    /\ ~isTransitioning

\* The search overlay has not been opened and no time has passed.
NavbarUntouched ==
    /\ ~showSearch
    /\ changes = 0
    /\ calls = <<>>
    /\ searchTimeouts = {SearchTimeout(0, <<>>)}

\* The cleanups at unmount: clearInterval(timer) of the auto-scroll effect
\* and clearTimeout(delaySearch) of the last run of the debounce effect.
\* The timeouts of nextSlide, prevSlide and goToSlide have no cleanup.
UnmountApp ==
    /\ mounted
    /\ mounted' = FALSE
    /\ interval' = "none"
    /\ searchTimeouts' = {t \in searchTimeouts : t.id # changes}
    /\ UNCHANGED <<moviesLength, currentIndex, prevIndex, isTransitioning,
                   slideDirection, isPaused, showModal, rendered, timers, pointer,
                   settled>>
    /\ UNCHANGED <<showSearch, searchQuery, searchResults, isSearching, calls,
                   inflight, changes, prevQuery, early, submits>>
    /\ UNCHANGED <<appVars, modalVars, prewarmVars, rootVars, selectVars>>

\* A settle timeout runs after the unmount: its state update is dropped, and
\* the callback of the first timeout still sets the second.
FireUnmounted(k) ==
    /\ ~mounted
    /\ k \in 1..Len(timers)
    /\ \A j \in 1..(k - 1) : timers[j].phase # timers[k].phase
    /\ timers' = IF timers[k].phase = 1
                 THEN Append(RemoveAt(timers, k),
                             Timer(2, timers[k].op, timers[k].index, timers[k].from,
                                   timers[k].idle))
                 ELSE RemoveAt(timers, k)
    /\ UNCHANGED <<moviesLength, currentIndex, prevIndex, isTransitioning,
                   slideDirection, isPaused, showModal, rendered, interval, pointer,
                   settled>>
    /\ UNCHANGED outsideBanner

\* A search request settles after the unmount: its state updates are dropped.
SearchSettlesUnmounted(i) ==
    /\ ~mounted
    /\ i \in inflight
    /\ inflight' = inflight \ {i}
    /\ UNCHANGED <<showSearch, searchQuery, searchResults, isSearching,
                   searchTimeouts, calls, changes, prevQuery, early, submits>>
    /\ UNCHANGED outsideNavbar

\* The carousel or the search overlay in use, one at a time, and the unmount
\* at any moment.
TeardownNext ==
    \/ mounted /\ NavbarUntouched /\ ClickNext
    \/ mounted /\ NavbarUntouched /\ ClickPrev
    \/ \E index \in 0..(moviesLength - 1) :
          mounted /\ NavbarUntouched /\ ClickIndicator(index)
    \/ mounted /\ NavbarUntouched /\ Tick
    \/ \E k \in 1..Len(timers) : mounted /\ NavbarUntouched /\ FireFirst(k)
    \/ \E k \in 1..Len(timers) : mounted /\ NavbarUntouched /\ FireSecond(k)
    \/ mounted /\ NavbarUntouched /\ Render
    \/ mounted /\ BannerAtRest /\ OpenSearch
    \/ \E q \in Queries : mounted /\ BannerAtRest /\ handleChange(q)
    \/ mounted /\ BannerAtRest /\ Elapse
    \/ \E t \in searchTimeouts : mounted /\ BannerAtRest /\ FireSearchTimeout(t)
    \/ \E i \in inflight, outcome \in {"results", "nothing", "error"} :
          mounted /\ BannerAtRest /\ SearchSettles(i, outcome)
    \/ UnmountApp
    \/ \E k \in 1..Len(timers) : FireUnmounted(k)
    \/ \E i \in inflight : SearchSettlesUnmounted(i)

\* ================================================================ Navbar selection
\* A result of the search is pressed (src/src/components/MovieRow.tsx,
\* lines 344-394, and the details view at 529-534).

\* The fields of a result that decide its kind: media_type, which may be
\* missing, and whether title is populated.
ResultShapes ==
    [media_type : Optional({"movie", "tv"}), title : BOOLEAN]

\* result.media_type || (result.title ? 'movie' : 'tv')
MediaType(shape) ==
    IF Present(shape.media_type) THEN shape.media_type[1]
    ELSE IF shape.title THEN "movie" ELSE "tv"

\* Largest number of selections in flight explored.
MaxSelections == 2

SelectInit ==
    /\ navbarSelectedMovie = <<>>
    /\ selections = {}

\* What the selection leaves alone besides the state of the search.
outsideSelect ==
    <<bannerVars, appVars, modalVars, prewarmVars, rootVars, treeVars>>

\* onClick of a result row.  The rows are rendered in the panel when no
\* search is in flight, and the details view covers them while it is open.
NavbarHandleMovieClick(shape) ==
    /\ PanelShown
    /\ NoneDue
    /\ ~isSearching
    /\ searchResults # <<>>
    /\ ~Present(navbarSelectedMovie)
    /\ Cardinality(selections) < MaxSelections
    /\ selections' = selections \cup
                       {[item |-> searchResults[1], shape |-> shape,
                         kind |-> MediaType(shape)]}
    /\ UNCHANGED navbarSelectedMovie
    /\ UNCHANGED navbarVars
    /\ UNCHANGED outsideSelect

\* The object handed to the details view.
Hydrated(sel, outcome) ==
    [item |-> sel.item, kind |-> sel.kind, id |-> (outcome = "details")]

\* What the continuation reaches: the view is opened and the search closed,
\* the search is closed only, or an exception is caught.
SelectionResult(kind, outcome) ==
    IF kind = "tv"
    THEN IF outcome \in {"details", "noid"} THEN "opened" ELSE "thrown"
    ELSE IF outcome = "details" THEN "opened"
         ELSE IF outcome = "error" THEN "thrown" ELSE "closed"

\* The details request of a clicked result completes.
SelectionSettles(sel, outcome) ==
    /\ sel \in selections
    /\ NoneDue
    /\ selections' = selections \ {sel}
    /\ LET result == SelectionResult(sel.kind, outcome)
       IN  /\ navbarSelectedMovie' = IF result = "opened"
                                     THEN <<Hydrated(sel, outcome)>>
                                     ELSE navbarSelectedMovie
           /\ IF result = "thrown"
              THEN UNCHANGED <<showSearch, searchQuery, searchResults, searchTimeouts,
                               changes, prevQuery, early>>
              ELSE /\ searchQuery # <<>> => changes < MaxChanges
                   /\ showSearch' = FALSE
                   /\ SetSearchQuery(<<>>)
                   /\ searchResults' = <<>>
    /\ UNCHANGED <<isSearching, calls, inflight, submits>>
    /\ UNCHANGED outsideSelect

\* onClose of the details view of the navigation bar.
closeNavbarSelectedMovie ==
    /\ Present(navbarSelectedMovie)
    /\ NoneDue
    /\ navbarSelectedMovie' = <<>>
    /\ UNCHANGED selections
    /\ UNCHANGED navbarVars
    /\ UNCHANGED outsideSelect

\* The search overlay with the debounced search, the Clear button, and the
\* selection of a result.
SelectNext ==
    \/ OpenSearch
    \/ \E q \in Queries : handleChange(q)
    \/ ClearSearch
    \/ Elapse
    \/ \E t \in searchTimeouts : FireSearchTimeout(t)
    \/ \E i \in inflight, outcome \in {"results", "nothing", "error"} :
          SearchSettles(i, outcome)
    \/ \E shape \in ResultShapes : NavbarHandleMovieClick(shape)
    \/ \E sel \in selections, outcome \in DetailOutcomes : SelectionSettles(sel, outcome)
    \/ closeNavbarSelectedMovie

\* ================================================================ specifications

\* The carousel.
Init ==
    /\ BannerInit /\ NavbarInit /\ AppInit /\ ModalClosed /\ PrewarmInit /\ RootInit
    /\ TreeInit /\ SelectInit

Spec == Init /\ [][Next]_vars

\* The carousel with its timeouts running out and its updates committed: a
\* timeout that is set runs when its delay is over, and React commits an
\* update that is pending.
Fairness ==
    /\ WF_vars(Render)
    /\ WF_vars(\E k \in 1..Len(timers) : FireFirst(k))
    /\ WF_vars(\E k \in 1..Len(timers) : FireSecond(k))

FairSpec == Init /\ [][Next]_vars /\ Fairness

\* The search overlay.
SearchInit == Init /\ moviesLength = 0

SearchSpec == SearchInit /\ [][SearchNext]_vars

\* The startup fetch.
StartupInit == Init /\ moviesLength = 0

StartupSpec == StartupInit /\ [][StartupNext]_vars

\* The details view.
DetailsInit ==
    /\ BannerInit /\ moviesLength = 0 /\ NavbarInit /\ AppInit /\ ModalInit
    /\ PrewarmInit /\ RootInit /\ TreeInit /\ SelectInit

DetailsSpec == DetailsInit /\ [][ModalNext]_vars

\* The details view and the replacement of its object.
ReplaceSpec == DetailsInit /\ [][ReplaceNext]_vars

\* The carousel and the details of its current item.
PrewarmSpec == Init /\ [][PrewarmNext]_vars

\* The root view after a startup that succeeded.
RootSpecInit ==
    /\ BannerInit /\ NavbarInit /\ AppLoaded /\ ModalClosed /\ PrewarmInit /\ RootInit
    /\ TreeInit /\ SelectInit

RootSpec == RootSpecInit /\ [][RootNext]_vars

\* The unmount of the component tree.
TeardownSpec == Init /\ [][TeardownNext]_vars

\* The selection of a search result.
SelectSpec == SearchInit /\ [][SelectNext]_vars

\* ---------------------------------------------------------------- claims

\* C1: advance() invoked at index i while no transition is under way ends,
\* once its transition has settled, at index (i + 1) mod L.
C1_AdvanceEndsAtNextIndex ==
    settled.op = "next" /\ settled.idle
        => currentIndex = (settled.from + 1) % moviesLength

\* C2: after an advance() invoked while no transition is under way has
\* settled, the slide direction is forward ("right"), wraparound included.
C2_AdvanceIsForward ==
    settled.op = "next" /\ settled.idle /\ ~isTransitioning
        => slideDirection = "right"

\* C3: retreat() invoked at index i while no transition is under way ends at
\* (i - 1 + L) mod L; from index 0 it ends at L - 1 with direction backward
\* ("left").
C3_RetreatEndsAtPreviousIndex ==
    settled.op = "prev" /\ settled.idle
        => /\ currentIndex = (settled.from - 1 + moviesLength) % moviesLength
           /\ settled.from = 0 =>
                 currentIndex = moviesLength - 1 /\ slideDirection = "left"

\* C3 witness: a retreat from index 0 of a set of three or more has settled.
C3_RetreatWrapped ==
    /\ settled.op = "prev" /\ settled.idle /\ settled.from = 0
    /\ moviesLength > 2
    /\ currentIndex = moviesLength - 1

\* C4: advance, retreat and jumpTo invoked while a transition is in progress,
\* and jumpTo of the current index, change neither the indices nor the flag
\* nor the direction and schedule no settle timer.
C4_InvokedDuringTransitionIsNoOp ==
    [][(\/ /\ isTransitioning
           /\ \/ ClickNext
              \/ ClickPrev
              \/ Tick
              \/ \E index \in 0..(moviesLength - 1) : ClickIndicator(index)
        \/ ClickIndicator(currentIndex))
       => /\ UNCHANGED <<currentIndex, prevIndex, isTransitioning, slideDirection>>
          /\ Len(timers') = Len(timers)]_vars

C6_AtMostOneTransitionInFlight ==
    Len(timers) <= 1

\* C7 as stated: whenever a transition is in progress and the current index
\* differs from the previous one, the direction is the one derived from them.
C7_DirectionDerivedAlways ==
    isTransitioning /\ currentIndex # prevIndex
        => slideDirection =
              IF prevIndex = moviesLength - 1 /\ currentIndex = 0 THEN "right"
              ELSE IF prevIndex = 0 /\ currentIndex = moviesLength - 1 THEN "left"
              ELSE IF currentIndex > prevIndex THEN "right" ELSE "left"

\* C7 amended: the same, in the states where the component has committed
\* its last update and run its effects.
C7_DirectionDerivedOnceCommitted ==
    ~Dirty => C7_DirectionDerivedAlways

\* C7 witness: committed, in transition, wrapped from the last index to 0.
C7_ForwardWrapCommitted ==
    /\ ~Dirty /\ isTransitioning
    /\ moviesLength > 2
    /\ prevIndex = moviesLength - 1 /\ currentIndex = 0
    /\ slideDirection = "right"

\* C8: with one item no auto-play timer is ever set and no transition ever
\* starts; with no item nothing is displayed and no handler ever runs.
C8_SingleItemNeverMoves ==
    /\ moviesLength = 1 =>
          /\ interval = "none" /\ timers = <<>>
          /\ ~isTransitioning /\ currentIndex = 0 /\ prevIndex = 0
    /\ moviesLength = 0 =>
          /\ ~Displayed
          /\ ~showModal /\ ~isPaused /\ pointer = "none" /\ interval = "none"

\* C8 witness: one item, hovered, with the details view open.
C8_SingleItemHoveredAndOpen ==
    moviesLength = 1 /\ showModal /\ isPaused /\ pointer = "banner"

\* C9 as stated: the auto-play timer exists only while the carousel is not
\* paused, no details view is showing, there is more than one item and no
\* transition is in progress.
C9_TimerOnlyWhileEnabled ==
    interval = "armed"
        => ~isPaused /\ ~showModal /\ moviesLength > 1 /\ ~isTransitioning

\* C9 amended: the auto-play timer exists exactly when the four conditions
\* held at the last commit of the component.
C9_TimerIffEnabledAtCommit ==
    interval # "none"
        <=> /\ ~rendered.isPaused /\ ~rendered.showModal
            /\ moviesLength > 1 /\ ~rendered.isTransitioning

\* C9 witness: the details view alone keeps the timer cancelled.
C9_CancelledByDetailsView ==
    /\ moviesLength > 1 /\ interval = "none"
    /\ rendered.showModal /\ ~rendered.isPaused /\ ~rendered.isTransitioning

DebouncedCalls(k) ==
    {i \in 1..Len(calls) : calls[i].by = "debounce" /\ calls[i].id = k}

\* C11: when a query of trimmed length 3 is changed, while its debounce
\* timeout is still pending (less than 500 ms later), to one of trimmed
\* length 2, that timeout is cancelled and the debounce issues no search
\* call for either value.
C11_SupersededQueryIsNotSearched ==
    (early /\ Len(Trim(prevQuery)) = 3 /\ Len(Trim(searchQuery)) = 2)
        => /\ \A t \in searchTimeouts : t.id = changes
           /\ DebouncedCalls(changes - 1) = {}
           /\ DebouncedCalls(changes) = {}

\* C11 witness: a query of trimmed length 3 was superseded in time by one of
\* trimmed length 2, the timeout has run, and no call was issued.
C11_CancelledAndQuiet ==
    /\ early /\ Len(Trim(prevQuery)) = 3 /\ Len(Trim(searchQuery)) = 2
    /\ searchTimeouts = {}
    /\ calls = <<>>

\* C12: at most one debounce timeout is pending, and it is the one of the
\* latest value; a value changed before its timeout ran gets no debounced
\* call, no value gets two, and once the timeout of the final value has run
\* (500 ms of quiet) exactly one debounced call was issued for it, carrying
\* that value, if its trimmed length exceeds 2, and none otherwise.
C12_OneCallForTheFinalValue ==
    /\ Cardinality(searchTimeouts) <= 1
    /\ \A t \in searchTimeouts : t.id = changes /\ t.query = searchQuery
    /\ early => DebouncedCalls(changes - 1) = {}
    /\ \A k \in 0..changes : Cardinality(DebouncedCalls(k)) <= 1
    /\ searchTimeouts = {}
          => IF Len(Trim(searchQuery)) > 2
             THEN /\ Cardinality(DebouncedCalls(changes)) = 1
                  /\ \A i \in DebouncedCalls(changes) : calls[i].query = searchQuery
             ELSE DebouncedCalls(changes) = {}

\* C12 witness: two changes less than 500 ms apart, both to searchable
\* values, then quiet: the only debounced call carries the final value.
C12_BurstThenQuiet ==
    /\ changes = 2 /\ early
    /\ Len(Trim(prevQuery)) > 2 /\ Len(Trim(searchQuery)) > 2
    /\ searchTimeouts = {}
    /\ \A i \in 1..Len(calls) : calls[i].by = "debounce" /\ calls[i].query = searchQuery
    /\ Len(calls) = 1

\* A step that is a keystroke in the input: the query changes and the
\* overlay stays open.
Keystroke == changes' = changes + 1 /\ showSearch'

\* A step in which the pending debounce timeout runs.
TimeoutRuns == searchTimeouts # {} /\ searchTimeouts' = {}

\* C13 as stated: a keystroke that leaves the trimmed query length <= 2
\* clears the result list in the same step and issues no call.
C13_ShortQueryClearsAtOnce ==
    [][Keystroke /\ Len(Trim(searchQuery')) <= 2
          => searchResults' = <<>> /\ calls' = calls]_vars

\* C13 amended: a keystroke that leaves the trimmed query length <= 2 issues
\* no call and hides the results panel in the same step, but leaves the
\* result list as it is and sets a new timeout of the full delay; the list is
\* cleared, still without a call, when that timeout runs.
C13_ShortQueryClearsWhenTimeoutRuns ==
    [][/\ Keystroke /\ Len(Trim(searchQuery')) <= 2
          => /\ calls' = calls /\ inflight' = inflight
             /\ ~(showSearch' /\ Len(Trim(searchQuery')) > 2)
             /\ searchResults' = searchResults
             /\ searchTimeouts' = {[id |-> changes', query |-> searchQuery',
                                    left |-> DebounceDelay]}
       /\ TimeoutRuns /\ Len(Trim(searchQuery)) <= 2
          => /\ \A t \in searchTimeouts : t.left = 0 /\ t.query = searchQuery
             /\ searchResults' = <<>>
             /\ calls' = calls /\ inflight' = inflight]_vars

\* C13 witness: right after a keystroke that left a query of trimmed length
\* 2, the results of the query before it are still in the list.
C13_StaleListAfterShortKeystroke ==
    /\ showSearch /\ Len(Trim(searchQuery)) = 2
    /\ \A t \in searchTimeouts : t.left = DebounceDelay
    /\ searchTimeouts # {}
    /\ submits = 0 /\ inflight = {}
    /\ searchResults = ResultsFor(prevQuery)

\* C14: a submit with a query of trimmed length > 2 issues a search call for
\* that query in the same step, whatever the debounce timeout has left, and
\* sets isSearching; with a trimmed length <= 2 it issues no call and leaves
\* the result list and isSearching as they are.
C14_SubmitSearchesAtOnce ==
    [][submits' = submits + 1
          => IF Len(Trim(searchQuery)) > 2
             THEN /\ calls' = Append(calls, [query |-> searchQuery, by |-> "submit",
                                             id |-> changes])
                  /\ inflight' = inflight \cup {Len(calls')}
                  /\ isSearching'
                  /\ searchTimeouts' = searchTimeouts
             ELSE /\ calls' = calls /\ inflight' = inflight
                  /\ searchResults' = searchResults
                  /\ isSearching' = isSearching]_vars

\* C14 witness: a submit issued the only call while the debounce timeout of
\* the same query had its full delay left.
C14_SubmittedBeforeTimeout ==
    /\ submits = 1
    /\ Len(calls) = 1 /\ calls[1].by = "submit" /\ calls[1].query = searchQuery
    /\ inflight = {1}
    /\ searchTimeouts = {[id |-> changes, query |-> searchQuery, left |-> DebounceDelay]}

\* C15: whenever a search request is in flight, isSearching is set.
C15_SearchingWhileInFlight == inflight # {} => isSearching

\* ---------------------------------------------------------------- startup claims

FailedFetches == {c \in Categories : fetches[c].state = "rejected"}

\* C16: once fetchData has resumed from the joined fetch the loading state
\* is left; if any of the eight fetches failed the error panel is shown and
\* every category list is still empty, whatever the other fetches returned;
\* the content is shown only when all eight succeeded, and then every list
\* holds what its fetch returned.
C16_StartupIsAllOrNothing ==
    /\ isLoading <=> fetchData = "awaiting"
    /\ fetchData = "done" /\ FailedFetches # {}
          => /\ ~isLoading /\ error = LoadError
             /\ \A c \in Categories : lists[c] = <<>>
    /\ ~isLoading /\ error = NoError
          => /\ \A c \in Categories : fetches[c].state = "fulfilled"
             /\ \A c \in Categories :
                   lists[c] = IF fetches[c].present THEN fetches[c].items ELSE <<>>

\* C16 witness: one fetch failed, the other seven returned their lists, and
\* the error panel is shown with every list empty.
C16_OneFailureAmongEight ==
    /\ fetchData = "done"
    /\ Cardinality(FailedFetches) = 1
    /\ \A c \in Categories \ FailedFetches :
          fetches[c].state = "fulfilled" /\ fetches[c].present
    /\ View = "error"
    /\ \A c \in Categories : lists[c] = <<>>

\* ---------------------------------------------------------------- details view claims

\* The entries of the seasons list of the object numbered as the selected
\* season.
SelectedSeasonEntries ==
    IF Present(movie.seasons)
    THEN {i \in 1..Len(movie.seasons[1]) :
             movie.seasons[1][i].season_number = selectedSeason}
    ELSE {}

\* C17: for a series in the player, the number of episode options of the
\* selected season (a season >= 1) is the episode_count of the entry of the
\* seasons list with that season number, and 10 when there is no such entry
\* or the entry has no count; entries numbered 0 are not in the per-season
\* map.
C17_EpisodeOptionsFollowSeasonsList ==
    (showPlayer /\ isTV) =>
        /\ \A e \in episodesPerSeason : e.season # 0
        /\ \A i \in SelectedSeasonEntries :
              Present(movie.seasons[1][i].episode_count)
                 => EpisodeOptions = 1..movie.seasons[1][i].episode_count[1]
        /\ (\A i \in SelectedSeasonEntries : ~Present(movie.seasons[1][i].episode_count))
              => EpisodeOptions = 1..10

\* C18: while the player is shown, a series without any external identifier
\* gets the series address built from the catalog id, with the selected
\* season and episode; a movie gets embed/movie/{id} without season or
\* episode.
C18_FallbackAndMovieUrl ==
    showPlayer =>
        /\ isTV /\ ~Present(movie.external_imdb_id) /\ ~Present(movie.imdb_id)
              => FrameSrc = [path |-> "https://vidsrc.in/embed/tv", imdb |-> <<>>,
                             tmdb |-> <<movie.id>>, season |-> <<selectedSeason>>,
                             episode |-> <<selectedEpisode>>]
        /\ ~isTV
              => FrameSrc = [path |-> "https://vidsrc.in/embed/movie", imdb |-> <<>>,
                             tmdb |-> <<movie.id>>, season |-> <<>>, episode |-> <<>>]

\* C18 witness: a series without external identifier is played at season 2,
\* episode 3.
C18_FallbackAtSecondSeason ==
    /\ showPlayer /\ isTV
    /\ ~Present(movie.external_imdb_id) /\ ~Present(movie.imdb_id)
    /\ selectedSeason = 2 /\ selectedEpisode = 3

\* C19 as stated: a series that carries an identifier at the top level and a
\* different one under external_ids is played by the top-level one.
C19_ExplicitIdentifierFirst ==
    (showPlayer /\ isTV /\ Present(movie.imdb_id) /\ Present(movie.external_imdb_id)
        /\ movie.imdb_id # movie.external_imdb_id)
        => FrameSrc.imdb = movie.imdb_id

\* C19 amended: a series is played by the identifier under external_ids when
\* there is one, and by the top-level identifier only when there is none
\* under external_ids.
C19_NestedIdentifierFirst ==
    (showPlayer /\ isTV)
        => /\ Present(movie.external_imdb_id) => FrameSrc.imdb = movie.external_imdb_id
           /\ ~Present(movie.external_imdb_id) /\ Present(movie.imdb_id)
                 => FrameSrc.imdb = movie.imdb_id

\* C19 witness: a series with two different identifiers is played.
C19_TwoIdentifiers ==
    /\ showPlayer /\ isTV
    /\ Present(movie.imdb_id) /\ Present(movie.external_imdb_id)
    /\ movie.imdb_id # movie.external_imdb_id

\* C20 as stated: the object is treated as a series exactly when it has a
\* season count, a first-air date, the kind marker 'tv', or a name without a
\* title.
C20_SeriesByNameWithoutTitle ==
    isTV <=> \/ Present(movie.number_of_seasons)
             \/ Present(movie.first_air_date)
             \/ movie.media_type = <<"tv">>
             \/ Present(movie.name) /\ ~Present(movie.title)

\* C20 amended: the object is treated as a series exactly when it has a
\* season count, a first-air date, the kind marker 'tv', or a name, whether
\* it has a title or not.
C20_SeriesByName ==
    isTV <=> \/ Present(movie.number_of_seasons)
             \/ Present(movie.first_air_date)
             \/ movie.media_type = <<"tv">>
             \/ Present(movie.name)

\* C20 witness: an object with both title fields and no other marker is
\* treated as a series.
C20_BothTitlesIsSeries ==
    /\ Present(movie.name) /\ Present(movie.title)
    /\ ~Present(movie.number_of_seasons) /\ ~Present(movie.first_air_date)
    /\ movie.media_type # <<"tv">>
    /\ isTV
    /\ showPlayer /\ FrameSrc.path = "https://vidsrc.in/embed/tv"

C23_DismissalsResetAndHide ==
    [][/\ (showSearch /\ (\/ ClearSearch
                          \/ handleKeyDown("Escape")
                          \/ handleClickOutside("outside")))
            => (~showSearch' /\ searchQuery' = <<>> /\ searchResults' = <<>>)
       /\ (showSearch /\ (handleClickOutside("input") \/ handleClickOutside("panel")))
            => UNCHANGED <<showSearch, searchQuery, searchResults>>]_vars

\* C23 witness: the overlay was dismissed after the query "abc" had been
\* searched: it is hidden, and the query and the list are empty.
C23_DismissedAfterSearch ==
    /\ ~showSearch
    /\ prevQuery = <<"a", "b", "c">> /\ searchQuery = <<>>
    /\ Len(calls) > 0 /\ inflight = {}
    /\ searchResults = <<>>

\* C28: the step in which a search request completes leaves the result list
\* equal to the response of that request (its results, or the empty list when
\* nothing was found or it failed), whatever was requested after it; and the
\* result list changes in no other way than by a completion or by being
\* emptied.
C28_LastCompletedSearchWins ==
    [][/\ \A i \in inflight :
              i \notin inflight'
                 => searchResults' \in {<<calls[i].query>>, <<>>}
       /\ searchResults' # searchResults
            => (inflight' # inflight \/ searchResults' = <<>>)]_vars

\* C28 witness: two requests for different queries have completed, and the
\* list holds the response of the one issued first.
C28_OlderResponseShown ==
    /\ Len(calls) = 2 /\ inflight = {}
    /\ calls[1].query # calls[2].query
    /\ searchResults = <<calls[1].query>>
    /\ searchQuery = calls[2].query

\* ---------------------------------------------------------------- transition claims

\* C27: while the first settle timer of a transition is pending the flag is
\* set and the current index is still the index the operation was invoked
\* at, with the previous index equal to it; the step in which that timer
\* fires sets the current index to the target and leaves the flag set; the
\* flag is cleared only by a second timer; and the index changes in no step
\* that starts with the flag clear.
C27_TwoOrderedPhases ==
    /\ [](\A k \in 1..Len(timers) :
              timers[k].phase = 1
                 => /\ isTransitioning
                    /\ currentIndex = timers[k].from
                    /\ prevIndex = currentIndex)
    /\ [][/\ \A k \in 1..Len(timers) :
                FireFirst(k)
                   => /\ currentIndex' =
                            CASE timers[k].op = "next"
                                   -> (timers[k].from + 1) % moviesLength
                              [] timers[k].op = "prev"
                                   -> (timers[k].from - 1 + moviesLength) % moviesLength
                              [] OTHER -> timers[k].index
                      /\ isTransitioning'
          /\ (isTransitioning /\ ~isTransitioning')
               => \E k \in 1..Len(timers) : timers[k].phase = 2 /\ FireSecond(k)
          /\ currentIndex' # currentIndex => isTransitioning]_vars

\* ---------------------------------------------------------------- details fetch claims

\* C25: once the current item of the carousel has changed, the next step
\* starts a details fetch for that item and sets the loading flag; and the
\* step in which a details fetch fails (it is rejected, or it comes back
\* with null or with an object without id) leaves the stored details as they
\* were and resets the loading flag.
C25_FetchOnChangeAndFailureKeepsDetails ==
    [][/\ (~Flushed /\ Present(CurrentMovie))
            => (CurrentMovie[1] \in detailFetches' /\ isLoadingDetails' /\ Flushed')
       /\ (\E item \in detailFetches, outcome \in {"error", "null", "noid"} :
               DetailsSettle(item, outcome))
            => (movieDetails' = movieDetails /\ ~isLoadingDetails')]_vars

\* C30: while the details view opened from the carousel is showing, no step
\* changes the current index.
C30_IndexFixedWhileDetailsShown ==
    [][(showModal /\ Present(movieDetails) /\ showModal')
          => currentIndex' = currentIndex]_vars

\* ---------------------------------------------------------------- root view claims

\* C29: the banner set handed to the carousel is the same sequence before and
\* after every step, whatever changes in the root view.
C29_BannerSetFixed ==
    [][movies' = movies]_vars

\* C26: a details request that completes with details stores them, whatever
\* was requested after it, both in the carousel and in the root view; and a
\* new request leaves the earlier requests in flight.
C26_LastCompletedDetailsStored ==
    [][/\ \A item \in detailFetches :
             DetailsSettle(item, "details") => movieDetails' = <<item>>
       /\ \A item \in hydrations :
             HydrationSettles(item, "details") => selectedMovie' = <<item>>
       /\ ~Flushed => detailFetches \subseteq detailFetches'
       /\ lastClicked' # lastClicked => hydrations \subseteq hydrations']_vars

\* Every request has completed, and in the carousel as in the root view the
\* details stored are those of an item requested before the latest one,
\* whose response came after the response to the latest request.
C26_EarlierRequestStored ==
    /\ detailFetches = {}
    /\ lateDetails
    /\ Present(movieDetails)
    /\ movieDetails # fetchedMovie
    /\ hydrations = {}
    /\ lateSelection
    /\ Present(selectedMovie)
    /\ selectedMovie # lastClicked

\* ---------------------------------------------------------------- teardown claims

\* C24: once the components are torn down no timer of theirs is pending:
\* the auto-play interval, the settle timeouts of the carousel and the
\* debounce timeout of the search are all cleared.
C24_NoTimerAfterTeardown ==
    ~mounted => (interval = "none" /\ timers = <<>> /\ searchTimeouts = {})

\* ---------------------------------------------------------------- selection claims

\* C22: in the step in which the details request of a clicked result
\* completes, the overlay is closed only if the details view is opened in
\* that step with the object hydrated for the result and for its resolved
\* kind (media_type if the result has one, else movie when title is
\* populated and series otherwise); and if the view is opened, the overlay
\* is hidden and the query and the list are empty.
C22_OverlayClosedOnlyWithViewOpened ==
    [][\A sel \in selections \ selections' :
          /\ (showSearch /\ ~showSearch')
                => /\ Present(navbarSelectedMovie')
                   /\ navbarSelectedMovie'[1].item = sel.item
                   /\ navbarSelectedMovie'[1].kind =
                        (IF Present(sel.shape.media_type) THEN sel.shape.media_type[1]
                         ELSE IF sel.shape.title THEN "movie" ELSE "tv")
          /\ navbarSelectedMovie' # navbarSelectedMovie
                => (~showSearch' /\ searchQuery' = <<>> /\ searchResults' = <<>>)]_vars

\* ---------------------------------------------------------------- submit and reset claims

\* C33: a submit leaves the pending debounce timeout as it is, and a timeout
\* that is due with a query of trimmed length > 2 issues its search call
\* whether or not a submit has searched the same query already.
C33_SubmitKeepsDebounceTimer ==
    [][/\ submits' = submits + 1 => searchTimeouts' = searchTimeouts
       /\ \A t \in searchTimeouts \ searchTimeouts' :
             (t.left = 0 /\ Searchable(t.query))
                => calls' = Append(calls, [query |-> t.query, by |-> "debounce",
                                           id |-> t.id])]_vars

\* C33 witness: one query was typed and then submitted before its timeout
\* ran; the log holds two calls for it, the submit's and the timeout's.
C33_TwoCallsForOneQuery ==
    /\ changes = 1 /\ submits = 1
    /\ Len(calls) = 2
    /\ calls[1] = [query |-> searchQuery, by |-> "submit", id |-> 1]
    /\ calls[2] = [query |-> searchQuery, by |-> "debounce", id |-> 1]
    /\ Searchable(searchQuery)

\* C34 as stated: once the overlay is closed and the list emptied, the
\* list stays empty for as long as the overlay is closed.
C34_ListStaysEmptyAfterReset ==
    [][(~showSearch /\ searchResults = <<>>) => searchResults' = <<>>]_vars

\* C34 amended: the step that closes the overlay empties the query and the
\* list and leaves the requests in flight; while the overlay is closed the
\* list changes only by being emptied or by a request that completes and
\* stores its results.
C34_ResetKeepsRequestsInFlight ==
    [][/\ (showSearch /\ ~showSearch')
            => (searchQuery' = <<>> /\ searchResults' = <<>> /\ inflight' = inflight)
       /\ (~showSearch /\ searchResults' # searchResults)
            => \/ searchResults' = <<>>
               \/ \E i \in inflight \ inflight' :
                     searchResults' = ResultsFor(calls[i].query)]_vars

\* C34 witness: the overlay is closed, the query is empty, nothing is in
\* flight any more, and the list holds the results of a request that
\* completed after the reset.
C34_ListRepopulatedAfterReset ==
    /\ ~showSearch
    /\ searchQuery = <<>>
    /\ inflight = {}
    /\ searchResults # <<>>

\* ---------------------------------------------------------------- termination claims

\* C32: with the settle timers firing, a carousel that is in transition
\* comes out of it; and once the flag is down and committed, the next
\* advance, retreat or jump to another slide begins a transition.
C32_TransitionsTerminate ==
    /\ isTransitioning ~> ~isTransitioning
    /\ [](( ~isTransitioning /\ ~Dirty /\ moviesLength > 1)
            => /\ nextSlide(rendered, State, timers).st.isTransitioning
               /\ prevSlide(rendered, State, timers).st.isTransitioning
               /\ \A index \in (0..(moviesLength - 1)) \ {currentIndex} :
                     goToSlide(rendered, State, timers, index).st.isTransitioning)

\* C32 witness: a jump to a slide has run through both settle timers, the
\* flag is down, and the arrows are enabled again.
C32_TransitionEnded ==
    /\ settled # NoTransition
    /\ settled.op = "goto"
    /\ ~isTransitioning
    /\ ~rendered.isTransitioning
    /\ timers = <<>>
    /\ currentIndex # settled.from

\* ---------------------------------------------------------------- hydration claims

\* C31: the step in which the details request of a selected item fails, or
\* comes back with null or with an object without id, opens no details view
\* and leaves what is shown as it was: in the navigation bar the overlay,
\* the query, the result list and the details view, in the root view the
\* details view.
C31_FailedHydrationChangesNothing ==
    [][/\ (\E sel \in selections, outcome \in {"error", "null", "noid"} :
               SelectionSettles(sel, outcome))
            => UNCHANGED <<showSearch, searchQuery, searchResults, navbarSelectedMovie>>
       /\ (\E item \in hydrations, outcome \in {"error", "null", "noid"} :
               HydrationSettles(item, outcome))
            => UNCHANGED selectedMovie]_vars

\* C36: whichever details view is showing, the object it was opened with
\* has an id: the view of the carousel, the view of the navigation bar and
\* the view of the root view.
C36_NoViewWithoutIdentifier ==
    /\ DetailsShown => movieDetails # <<0>>
    /\ Present(navbarSelectedMovie) => navbarSelectedMovie[1].id
    /\ Present(selectedMovie) => selectedMovie[1] \in RowItems

\* ---------------------------------------------------------------- details view claims

\* C35: whenever the details view shows a series, the selected season is
\* one of the season options, the selected episode is one of the episode
\* options of that season, and the season count and the episode counts are
\* those the view derives from the object it displays.
C35_SelectionWithinDisplayedItem ==
    (movie # NoMovie /\ isTV)
        => /\ selectedSeason \in SeasonOptions
           /\ selectedEpisode \in EpisodeOptions
           /\ totalSeasons = MovieEffect(movie, 1, {}).totalSeasons
           /\ episodesPerSeason = MovieEffect(movie, 1, {}).episodesPerSeason

====
